---- MODULE Spec2Model ----
(***************************************************************************)
(* Model of bagheera's ClassificationOutput (src/src/classification.rs),   *)
(* its Top-K selection (src/src/utils.rs) and its error constructors       *)
(* (src/src/errors.rs).                                                    *)
(*                                                                         *)
(* Text is a sequence of one-character strings, a float is an integer      *)
(* (NaN is the one value that is_nan accepts), a HashMap is a function     *)
(* whose DOMAIN is its key set, and a call's outcome is a record           *)
(* [kind, err, val, line]: kind is "Ok", "Err" (a returned io::Error of    *)
(* ErrorKind err) or "Panic" (an unwrap() that aborted the process).       *)
(* is_multilabel is the flag of a ClassificationDataset, whose labels are  *)
(* then held in data; a ClassificationOutput leaves it FALSE.              *)
(***************************************************************************)
EXTENDS Integers, Sequences, FiniteSets

VARIABLES num_classes, data, is_multilabel, res

vars == <<num_classes, data, is_multilabel, res>>

(***************************************************************************)
(* Bounds of the model.                                                    *)
(***************************************************************************)
MaxClasses == 2
MaxVal == 1
MaxLines == 2
MaxToks == 2
MaxTopkLen == 4
MaxTopkVal == 2
MaxHotClasses == 5
MaxHotLen == 3
MaxLabels == 2
MaxLabelVal == 1

(***************************************************************************)
(* Floats.                                                                 *)
(***************************************************************************)
NaN == -1

is_nan(x) == x = NaN

Floats(maxv) == (0..maxv) \cup {NaN}

\* All vectors of length n over the set S.
Vectors(S, n) == [1..n -> S]

KeyA == <<"a">>
KeyB == <<"b">>
Keys == {KeyA, KeyB}

NoKey == <<>>
EmptyMap == [x \in {} |-> <<>>]

(***************************************************************************)
(* Outcomes of a call.                                                     *)
(***************************************************************************)
Ok(v) == [kind |-> "Ok", err |-> "", val |-> v, line |-> 0]
Panic == [kind |-> "Panic", err |-> "", val |-> <<>>, line |-> 0]

\* errors.rs: io::Error::new(io::ErrorKind::NotFound, ...)
image_not_present_error == [kind |-> "Err", err |-> "NotFound", val |-> <<>>, line |-> 0]

\* errors.rs: io::Error::new(io::ErrorKind::InvalidInput, ...)
topk_incorrect_k == [kind |-> "Err", err |-> "InvalidInput", val |-> <<>>, line |-> 0]

\* classification.rs: io::Error::new(io::ErrorKind::InvalidData, "Line {line_num} of ...")
invalid_data_error(line_num) == [kind |-> "Err", err |-> "InvalidData", val |-> <<>>, line |-> line_num]

(***************************************************************************)
(* utils.rs: IndexedTuple, NoNaN and the BinaryHeap the Top-K pushes to    *)
(* and pops from.  Heap positions are 0-based as in the code; At reads one.*)
(***************************************************************************)
IndexedTuple(index, value) == [index |-> index, value |-> value]

\* Mutant of Le: the comparison turned round, a min-heap.
Le_flipped(x, y) == x.value >= y.value

\* IndexedTuple compares by value only; NoNaN compares as the float does.
Le(x, y) == x.value <= y.value

At(h, pos) == h[pos + 1]

Put(h, pos, x) == [h EXCEPT ![pos + 1] = x]

\* BinaryHeap::sift_up: the hole at pos, holding elt, climbs while its
\* parent is smaller than elt.
RECURSIVE sift_up(_, _, _, _)
sift_up(h, elt, start, pos) ==
    IF pos > start
    THEN LET parent == (pos - 1) \div 2
         IN IF Le(elt, At(h, parent))
            THEN Put(h, pos, elt)
            ELSE sift_up(Put(h, pos, At(h, parent)), elt, start, parent)
    ELSE Put(h, pos, elt)

\* BinaryHeap::push
heap_push(h, item) == sift_up(Append(h, item), item, 0, Len(h))

\* The loop of BinaryHeap::sift_down_to_bottom: the hole at pos descends to
\* the greater child until it has fewer than two children.
RECURSIVE sift_down_loop(_, _, _)
sift_down_loop(h, pos, end) ==
    LET child == 2 * pos + 1
        last2 == IF end >= 2 THEN end - 2 ELSE 0
    IN IF child <= last2
       THEN LET c == IF Le(At(h, child), At(h, child + 1)) THEN child + 1 ELSE child
            IN sift_down_loop(Put(h, pos, At(h, c)), c, end)
       ELSE IF child = end - 1
            THEN [h |-> Put(h, pos, At(h, child)), pos |-> child]
            ELSE [h |-> h, pos |-> pos]

\* BinaryHeap::sift_down_to_bottom(0)
sift_down_to_bottom(h, start) ==
    LET elt == At(h, start)
        d == sift_down_loop(h, start, Len(h))
    IN sift_up(d.h, elt, start, d.pos)

\* Mutant of heap_pop: the last item is moved to the root and left there.
heap_pop_no_sift(h) ==
    LET last == h[Len(h)]
        rest == SubSeq(h, 1, Len(h) - 1)
    IN IF rest = <<>>
       THEN [item |-> last, heap |-> rest]
       ELSE [item |-> rest[1], heap |-> Put(rest, 0, last)]

\* BinaryHeap::pop on a non-empty heap: the item returned and the heap left.
heap_pop(h) ==
    LET last == h[Len(h)]
        rest == SubSeq(h, 1, Len(h) - 1)
    IN IF rest = <<>>
       THEN [item |-> last, heap |-> rest]
       ELSE [item |-> rest[1], heap |-> sift_down_to_bottom(Put(rest, 0, last), 0)]

\* for (index, value) in self.iter().enumerate() { bheap.push(IndexedTuple::new(index, value)) }
RECURSIVE build_heap(_, _, _)
build_heap(v, i, h) ==
    IF i > Len(v) THEN h
    ELSE build_heap(v, i + 1, heap_push(h, IndexedTuple(i - 1, v[i])))

\* for _ in 0..k { topk_indices.push(bheap.pop().unwrap().index()) }
RECURSIVE pop_k(_, _, _)
pop_k(h, k, out) ==
    IF k = 0 THEN out
    ELSE LET p == heap_pop(h)
         IN pop_k(p.heap, k - 1, Append(out, p.item.index))

\* impl_topk_non_float: Vec<integer>::top_k
top_k_non_float(v, k) ==
    IF k > Len(v) THEN topk_incorrect_k
    ELSE Ok(pop_k(build_heap(v, 1, <<>>), k, <<>>))

\* Mutant of top_k: with k = 0 the empty list is returned before any element
\* is wrapped.
top_k_lazy(v, k) ==
    IF k > Len(v) THEN topk_incorrect_k
    ELSE IF k = 0 THEN Ok(<<>>)
    ELSE IF \E i \in 1..Len(v) : is_nan(v[i]) THEN Panic
    ELSE Ok(pop_k(build_heap(v, 1, <<>>), k, <<>>))

\* impl_topk_float: Vec<float>::top_k; NoNaN::new(*value).unwrap() aborts on
\* the first NaN, before any index is popped.
top_k(v, k) ==
    IF k > Len(v) THEN topk_incorrect_k
    ELSE IF \E i \in 1..Len(v) : is_nan(v[i]) THEN Panic
    ELSE Ok(pop_k(build_heap(v, 1, <<>>), k, <<>>))

(***************************************************************************)
(* classification.rs: ClassificationOutput, as operators on its fields.    *)
(***************************************************************************)
image_is_present(d, image_name) == image_name \in DOMAIN d

num_images(d) == Cardinality(DOMAIN d)

is_empty(d) == DOMAIN d = {}

list_images(d) == DOMAIN d

\* Mutant of hmap_insert: a key already present keeps its value.
hmap_insert_keep(d, key, value) ==
    [x \in DOMAIN d \cup {key} |-> IF x \in DOMAIN d THEN d[x] ELSE value]

\* HashMap::insert
hmap_insert(d, key, value) ==
    [x \in DOMAIN d \cup {key} |-> IF x = key THEN value ELSE d[x]]

\* Mutant of add: the map is emptied before the insert.
add_clear(nc, d, image_name, confidence_vector) ==
    IF Len(confidence_vector) = nc
    THEN [out |-> Ok(<<>>), data |-> [x \in {image_name} |-> confidence_vector]]
    ELSE [out |-> image_not_present_error, data |-> d]

\* Mutant of add: a vector shorter than num_classes is accepted too.
add_le(nc, d, image_name, confidence_vector) ==
    IF Len(confidence_vector) <= nc
    THEN [out |-> Ok(<<>>),
          data |-> [x \in DOMAIN d \cup {image_name} |->
                        IF x = image_name THEN confidence_vector ELSE d[x]]]
    ELSE [out |-> image_not_present_error, data |-> d]

\* ClassificationOutput::add: the outcome and the map it leaves.
add(nc, d, image_name, confidence_vector) ==
    IF Len(confidence_vector) = nc
    THEN [out |-> Ok(<<>>), data |-> hmap_insert(d, image_name, confidence_vector)]
    ELSE [out |-> image_not_present_error, data |-> d]

\* ClassificationOutput::confidence_for_image
confidence_for_image(d, imagename) ==
    IF ~image_is_present(d, imagename)
    THEN image_not_present_error
    ELSE Ok(d[imagename])

\* Mutant of topk_for_image: an absent key is read as an empty vector.
topk_for_image_default(d, imagename, k) ==
    LET r == top_k(IF image_is_present(d, imagename) THEN d[imagename] ELSE <<>>, k)
    IN IF r.kind = "Ok" THEN r ELSE Panic

\* ClassificationOutput::topk_for_image: top_k(k).unwrap() aborts on Err.
topk_for_image(d, imagename, k) ==
    IF ~image_is_present(d, imagename)
    THEN image_not_present_error
    ELSE LET r == top_k(confidence_for_image(d, imagename).val, k)
         IN IF r.kind = "Ok" THEN r ELSE Panic

(***************************************************************************)
(* classification.rs: from_csv_file.  A source is the sequence of its      *)
(* lines, a line a sequence of characters.                                 *)
(***************************************************************************)
Digits == <<"0", "1", "2", "3", "4", "5", "6", "7", "8", "9">>

IsDigit(c) == \E i \in 1..10 : Digits[i] = c

DigitVal(c) == (CHOOSE i \in 1..10 : Digits[i] = c) - 1

IsSpace(c) == c = " "

\* str::trim: drops the leading and the trailing whitespace.
RECURSIVE trim_start(_)
trim_start(s) ==
    IF s # <<>> /\ IsSpace(Head(s)) THEN trim_start(Tail(s)) ELSE s

RECURSIVE trim_end(_)
trim_end(s) ==
    IF s # <<>> /\ IsSpace(s[Len(s)]) THEN trim_end(SubSeq(s, 1, Len(s) - 1)) ELSE s

\* Mutant of trim: the trailing whitespace stays.
trim_leading(s) == trim_start(s)

trim(s) == trim_end(trim_start(s))

\* str::split(","): the tokens between the commas, at least one.
RECURSIVE split_from(_, _, _)
split_from(s, cur, out) ==
    IF s = <<>> THEN Append(out, cur)
    ELSE IF Head(s) = "," THEN split_from(Tail(s), <<>>, Append(out, cur))
    ELSE split_from(Tail(s), Append(cur, Head(s)), out)

split(s) == split_from(s, <<>>, <<>>)

RECURSIVE decimal(_, _)
decimal(tok, acc) ==
    IF tok = <<>> THEN acc ELSE decimal(Tail(tok), 10 * acc + DigitVal(Head(tok)))

\* fast_float::parse on the whole token: a run of digits is a number, "nan"
\* is NaN, the empty token and any other character (a space included) is an
\* error.  Signs, '.', exponents and "inf" are not in the model's alphabet.
parse(tok) ==
    IF tok # <<>> /\ \A i \in 1..Len(tok) : IsDigit(tok[i]) THEN Ok(decimal(tok, 0))
    ELSE IF tok = <<"n", "a", "n">> THEN Ok(NaN)
    ELSE [kind |-> "Err", err |-> "ParseError", val |-> 0, line |-> 0]

\* The token loop of one line: token 0 names the image, every other token is
\* parsed and pushed; parse(..).unwrap() aborts on the first bad token.
parse_line(line_trimmed) ==
    LET tokens == split(line_trimmed)
        scores == Tail(tokens)
    IN IF \E i \in 1..Len(scores) : parse(scores[i]).kind # "Ok"
       THEN [kind |-> "Panic", imagename |-> tokens[1], vec |-> <<>>]
       ELSE [kind |-> "Ok", imagename |-> tokens[1],
             vec |-> [i \in 1..Len(scores) |-> parse(scores[i]).val]]

\* The line loop of from_csv_file from line_num on, with the map so far.
RECURSIVE csv_lines(_, _, _, _)
csv_lines(src, line_num, nc, data_hmap) ==
    IF line_num >= Len(src) THEN [out |-> Ok(<<>>), data |-> data_hmap]
    ELSE LET line_trimmed == trim(src[line_num + 1])
         IN IF line_trimmed = <<>>
            THEN [out |-> invalid_data_error(line_num), data |-> data_hmap]
            ELSE LET p == parse_line(line_trimmed)
                 IN IF p.kind = "Panic"
                    THEN [out |-> Panic, data |-> data_hmap]
                    ELSE IF Len(p.vec) # nc
                    THEN [out |-> invalid_data_error(line_num), data |-> data_hmap]
                    ELSE csv_lines(src, line_num + 1, nc,
                                   hmap_insert(data_hmap, p.imagename, p.vec))

\* ClassificationOutput::from_csv_file: Ok carries the new store's map; on
\* Err or abort the map built so far is dropped with the call's frame.
from_csv_file(src, nc) ==
    LET r == csv_lines(src, 0, nc, EmptyMap)
    IN IF r.out.kind = "Ok" THEN r ELSE [out |-> r.out, data |-> EmptyMap]

(***************************************************************************)
(* Inputs.                                                                 *)
(***************************************************************************)
\* Confidence vectors handed to add: every length up to MaxClasses.
AddVectors == UNION {Vectors(0..MaxVal, n) : n \in 0..MaxClasses}

\* Score tokens of a line: two numbers and a non-number.
ScoreToks == {<<"0">>, <<"1">>, <<"x">>}

RECURSIVE join(_, _)
join(line, toks) ==
    IF toks = <<>> THEN line ELSE join(line \o <<",">> \o Head(toks), Tail(toks))

\* Lines: a blank one, a key followed by up to MaxToks score tokens, and a
\* key followed by one score with a space before or after it.
Lines ==
    {<<" ">>} \cup
    {join(key, toks) : key \in Keys,
                       toks \in UNION {Vectors(ScoreToks, n) : n \in 0..MaxToks}} \cup
    {join(KeyA, <<tok>>) : tok \in {<<" ", "1">>, <<"1", " ">>}}

Sources == UNION {Vectors(Lines, m) : m \in 0..MaxLines}

(***************************************************************************)
(* The state machine: one store (num_classes, data) and the last call      *)
(* with its arguments and outcome (res).                                   *)
(***************************************************************************)
Call(op, key, vec, k, src, nc, replaced, out) ==
    [op |-> op, key |-> key, vec |-> vec, k |-> k, src |-> src, nc |-> nc,
     replaced |-> replaced, out |-> out]

\* A panic aborts the process, and a failed from_csv_file returns no store:
\* no method runs after either.
Running == res.out.kind # "Panic" /\ (res.op = "from_csv_file" => res.out.kind = "Ok")

\* ClassificationOutput::new
Init ==
    \E nc \in 1..MaxClasses :
        /\ num_classes = nc
        /\ data = EmptyMap
        /\ is_multilabel = FALSE
        /\ res = Call("new", NoKey, <<>>, 0, <<>>, nc, FALSE, Ok(<<>>))

Add(key, vec) ==
    /\ Running
    /\ LET r == add(num_classes, data, key, vec)
       IN /\ data' = r.data
          /\ res' = Call("add", key, vec, 0, <<>>, num_classes,
                         r.out.kind = "Ok" /\ image_is_present(data, key), r.out)
    /\ UNCHANGED <<num_classes, is_multilabel>>

ConfidenceForImage(key) ==
    /\ Running
    /\ res' = Call("confidence_for_image", key, <<>>, 0, <<>>, num_classes, FALSE,
                   confidence_for_image(data, key))
    /\ UNCHANGED <<num_classes, data, is_multilabel>>

TopkForImage(key, k) ==
    /\ Running
    /\ res' = Call("topk_for_image", key, <<>>, k, <<>>, num_classes, FALSE,
                   topk_for_image(data, key, k))
    /\ UNCHANGED <<num_classes, data, is_multilabel>>

\* The program builds its store with new or with from_csv_file: the load
\* runs first, and the store it returns replaces the empty one.
FromCsvFile(src) ==
    /\ res.op = "new"
    /\ LET r == from_csv_file(src, num_classes)
       IN /\ res' = Call("from_csv_file", NoKey, <<>>, 0, src, num_classes, FALSE, r.out)
          /\ data' = IF r.out.kind = "Ok" THEN r.data ELSE data
    /\ UNCHANGED <<num_classes, is_multilabel>>

\* The guards stand before the quantifiers, so that no input is enumerated
\* in a state where the call cannot run.
Next ==
    \/ Running /\ \E key \in Keys, vec \in AddVectors : Add(key, vec)
    \/ Running /\ \E key \in Keys : ConfidenceForImage(key)
    \/ Running /\ \E key \in Keys, k \in 0..(MaxClasses + 1) : TopkForImage(key, k)
    \/ res.op = "new" /\ \E src \in Sources : FromCsvFile(src)

Spec == Init /\ [][Next]_vars

(***************************************************************************)
(* Top-K on longer vectors: the store holds one vector under "a", as after *)
(* new(Len(v)) and add("a", v), and only Top-K calls follow.               *)
(***************************************************************************)
ExampleVector == <<10, 30, 20, 50, 40>>

TopkVectors ==
    UNION {Vectors(Floats(MaxTopkVal), n) : n \in 1..MaxTopkLen} \cup {ExampleVector}

InitTopK ==
    \E v \in TopkVectors :
        /\ num_classes = Len(v)
        /\ data = add(Len(v), EmptyMap, KeyA, v).data
        /\ is_multilabel = FALSE
        /\ res = Call("add", KeyA, v, 0, <<>>, Len(v), FALSE, add(Len(v), EmptyMap, KeyA, v).out)

\* Vec<integer>::top_k on the stored numbers, read as integers.
TopKNonFloat(k) ==
    /\ Running
    /\ image_is_present(data, KeyA)
    /\ \A i \in 1..Len(data[KeyA]) : ~is_nan(data[KeyA][i])
    /\ res' = Call("top_k_non_float", KeyA, data[KeyA], k, <<>>, num_classes, FALSE,
                   top_k_non_float(data[KeyA], k))
    /\ UNCHANGED <<num_classes, data, is_multilabel>>

\* Vec<float>::top_k on the stored vector itself.
TopKFloat(k) ==
    /\ Running
    /\ image_is_present(data, KeyA)
    /\ res' = Call("top_k", KeyA, data[KeyA], k, <<>>, num_classes, FALSE,
                   top_k(data[KeyA], k))
    /\ UNCHANGED <<num_classes, data, is_multilabel>>

NextTopK ==
    \/ Running /\ \E key \in Keys, k \in 0..(num_classes + 1) : TopkForImage(key, k)
    \/ Running /\ \E k \in 0..(num_classes + 1) : TopKNonFloat(k)
    \/ Running /\ \E k \in 0..(num_classes + 1) : TopKFloat(k)

SpecTopK == InitTopK /\ [][NextTopK]_vars

(***************************************************************************)
(* utils.rs: ToOneHot.  num_classes holds the num_classes argument; only   *)
(* convert calls follow.                                                   *)
(***************************************************************************)
\* Mutant of convert: the class index is counted from 1.
convert_from_one(self, nc) ==
    IF self >= nc THEN Panic
    ELSE Ok([i \in 1..nc |-> i = self])

\* impl ToOneHot<T1> for T1: panic!(..) when *self >= num_classes.
convert(self, nc) ==
    IF self >= nc THEN Panic
    ELSE Ok([[i \in 1..nc |-> FALSE] EXCEPT ![self + 1] = TRUE])

\* Mutant of convert_vec_loop: each listed index flips its position.
RECURSIVE convert_vec_toggle(_, _, _)
convert_vec_toggle(list, nc, one_hot) ==
    IF list = <<>> THEN Ok(one_hot)
    ELSE IF Head(list) >= nc THEN Panic
    ELSE convert_vec_toggle(Tail(list), nc,
                            [one_hot EXCEPT ![Head(list) + 1] = ~one_hot[Head(list) + 1]])

\* The loop of impl ToOneHot<T1> for Vec<T1>: panic!(..) at the first
\* category >= num_classes, else one_hot[category] = true.
RECURSIVE convert_vec_loop(_, _, _)
convert_vec_loop(list, nc, one_hot) ==
    IF list = <<>> THEN Ok(one_hot)
    ELSE IF Head(list) >= nc THEN Panic
    ELSE convert_vec_loop(Tail(list), nc, [one_hot EXCEPT ![Head(list) + 1] = TRUE])

\* impl ToOneHot<T1> for Vec<T1>
convert_vec(list, nc) == convert_vec_loop(list, nc, [i \in 1..nc |-> FALSE])

ClassIndices == 0..MaxHotClasses

ClassLists == UNION {Vectors(ClassIndices, n) : n \in 0..MaxHotLen}

InitOneHot ==
    \E nc \in 0..MaxHotClasses :
        /\ num_classes = nc
        /\ data = EmptyMap
        /\ is_multilabel = FALSE
        /\ res = Call("new", NoKey, <<>>, 0, <<>>, nc, FALSE, Ok(<<>>))

Convert(self) ==
    /\ Running
    /\ res' = Call("convert", NoKey, <<>>, self, <<>>, num_classes, FALSE,
                   convert(self, num_classes))
    /\ UNCHANGED <<num_classes, data, is_multilabel>>

ConvertVec(list) ==
    /\ Running
    /\ res' = Call("convert_vec", NoKey, list, 0, <<>>, num_classes, FALSE,
                   convert_vec(list, num_classes))
    /\ UNCHANGED <<num_classes, data, is_multilabel>>

NextOneHot ==
    \/ Running /\ \E self \in ClassIndices : Convert(self)
    \/ Running /\ \E list \in ClassLists : ConvertVec(list)

SpecOneHot == InitOneHot /\ [][NextOneHot]_vars

(***************************************************************************)
(* ClassificationDataset (crate::classification_old): the label store.     *)
(* data maps a key to its label list.                                      *)
(***************************************************************************)
duplicate_key_error == [kind |-> "Err", err |-> "DuplicateKey", val |-> <<>>, line |-> 0]

multi_label_error == [kind |-> "Err", err |-> "MultiLabelViolation", val |-> <<>>, line |-> 0]

\* Mutant of dataset_add: the label count is tested before the key.
dataset_add_count_first(ml, d, image_name, labels) ==
    IF ~ml /\ Len(labels) > 1 THEN [out |-> multi_label_error, data |-> d]
    ELSE IF image_name \in DOMAIN d THEN [out |-> duplicate_key_error, data |-> d]
    ELSE [out |-> Ok(<<>>), data |-> hmap_insert(d, image_name, labels)]

\* ClassificationDataset::add: a key already present is refused, then more
\* than one label on a single-label store; else a copy of labels is stored.
dataset_add(ml, d, image_name, labels) ==
    IF image_name \in DOMAIN d THEN [out |-> duplicate_key_error, data |-> d]
    ELSE IF ~ml /\ Len(labels) > 1 THEN [out |-> multi_label_error, data |-> d]
    ELSE [out |-> Ok(<<>>), data |-> hmap_insert(d, image_name, labels)]

\* ClassificationDataset::get
dataset_get(d, image_name) ==
    IF image_name \in DOMAIN d THEN Ok(d[image_name]) ELSE image_not_present_error

\* Label values are not checked against num_classes.
LabelLists == UNION {Vectors(0..MaxLabelVal, n) : n \in 0..MaxLabels}

\* ClassificationDataset::new(num_classes, is_multilabel)
InitLabel ==
    \E ml \in BOOLEAN :
        /\ num_classes = MaxClasses
        /\ data = EmptyMap
        /\ is_multilabel = ml
        /\ res = Call("new", NoKey, <<>>, 0, <<>>, MaxClasses, FALSE, Ok(<<>>))

DatasetAdd(key, labels) ==
    /\ Running
    /\ LET r == dataset_add(is_multilabel, data, key, labels)
       IN /\ data' = r.data
          /\ res' = Call("dataset_add", key, labels, 0, <<>>, num_classes,
                         image_is_present(data, key), r.out)
    /\ UNCHANGED <<num_classes, is_multilabel>>

DatasetGet(key) ==
    /\ Running
    /\ res' = Call("dataset_get", key, <<>>, 0, <<>>, num_classes, FALSE,
                   dataset_get(data, key))
    /\ UNCHANGED <<num_classes, data, is_multilabel>>

NextLabel ==
    \/ Running /\ \E key \in Keys, labels \in LabelLists : DatasetAdd(key, labels)
    \/ Running /\ \E key \in Keys : DatasetGet(key)

SpecLabel == InitLabel /\ [][NextLabel]_vars

(***************************************************************************)
(* Properties.                                                             *)
(***************************************************************************)
\* The last call was a Top-K on a stored vector: its vector, k and outcome.
IsTopK == res.op \in {"topk_for_image", "top_k_non_float"} /\ image_is_present(data, res.key)

TopKVector == data[res.key]

HasNaN(v) == \E i \in 1..Len(v) : is_nan(v[i])

Range(r) == {r[p] : p \in 1..Len(r)}

\* r lists exactly k pairwise distinct indices of v, none smaller in value
\* than an index left out.
IsTopKSet(v, k, r) ==
    /\ Len(r) = k
    /\ \A p, q \in 1..Len(r) : p # q => r[p] # r[q]
    /\ Range(r) \subseteq 0..(Len(v) - 1)
    /\ \A i \in Range(r) : \A j \in (0..(Len(v) - 1)) \ Range(r) : v[i + 1] >= v[j + 1]
    /\ (k = 0 => r = <<>>)
    /\ (k = Len(v) => Range(r) = 0..(Len(v) - 1))

\* C3 as stated: for every stored vector and every k in [0, NumClasses],
\* topK returns exactly k distinct indices in [0, NumClasses), each returned
\* value >= each value left out.
C3_TopKSetEveryVector ==
    (IsTopK /\ res.k <= num_classes) =>
        (res.out.kind = "Ok" /\ IsTopKSet(TopKVector, res.k, res.out.val))

\* C3 amended: the same for every stored vector that holds no NaN (ties
\* included), for the float and the integer Top-K alike.
C3_TopKSetNoNaN ==
    (IsTopK /\ res.k <= num_classes /\ ~HasNaN(TopKVector)) =>
        (res.out.kind = "Ok" /\ IsTopKSet(TopKVector, res.k, res.out.val))

\* A Top-K that had to split a tie: a returned and a left-out index hold the
\* same value.
C3_Witness ==
    /\ res.op = "topk_for_image"
    /\ res.out.kind = "Ok"
    /\ res.k >= 2
    /\ res.k < num_classes
    /\ \E i \in Range(res.out.val) : \E j \in (0..(num_classes - 1)) \ Range(res.out.val) :
           data[res.key][i + 1] = data[res.key][j + 1]

\* C4: the returned indices are in order of non-increasing value; the
\* vector [10, 30, 20, 50, 40] with k = 3 gives [3, 4, 1], and a vector
\* 0, 1, ..., n-1 gives n-1, n-2, ... .
C4_TopKDescending ==
    (IsTopK /\ res.out.kind = "Ok") =>
        /\ \A p \in 1..(Len(res.out.val) - 1) :
               TopKVector[res.out.val[p] + 1] >= TopKVector[res.out.val[p + 1] + 1]
        /\ (TopKVector = ExampleVector /\ res.k = 3 => res.out.val = <<3, 4, 1>>)
        /\ (TopKVector = [i \in 1..num_classes |-> i - 1] =>
               res.out.val = [p \in 1..res.k |-> num_classes - p])

C4_Witness ==
    /\ res.op = "topk_for_image"
    /\ data[KeyA] = ExampleVector
    /\ res.k = 3
    /\ res.out = Ok(<<3, 4, 1>>)

\* C1 as stated: add with a vector of a length other than NumClasses fails
\* with a DimensionMismatch error, a kind distinct from NotFound, and leaves
\* the key set as it was.
C1_AddWrongLengthDimensionMismatch ==
    [][(res'.op = "add" /\ Len(res'.vec) # num_classes) =>
           /\ res'.out.kind = "Err"
           /\ res'.out.err = "DimensionMismatch"
           /\ res'.out.err # "NotFound"
           /\ list_images(data') = list_images(data)]_vars

\* C2 as stated: topK on a present key with k > NumClasses returns an
\* InvalidArgument error (io::ErrorKind::InvalidInput) to the caller, does
\* not abort, and leaves the store as it was.
C2_TopKTooLargeReturnsError ==
    [][(res'.op = "topk_for_image" /\ image_is_present(data, res'.key)
            /\ res'.k > num_classes) =>
           /\ res'.out.kind = "Err"
           /\ res'.out.err = "InvalidInput"
           /\ data' = data
           /\ num_classes' = num_classes]_vars

\* C5: right after add(key, vector) with vector.length == NumClasses, the add
\* has succeeded, get(key) returns that vector and contains(key) is true.
C5_AddThenGet ==
    (res.op = "add" /\ Len(res.vec) = num_classes) =>
        /\ res.out.kind = "Ok"
        /\ image_is_present(data, res.key)
        /\ confidence_for_image(data, res.key) = Ok(res.vec)
        /\ Len(confidence_for_image(data, res.key).val) = Len(res.vec)

\* An add that replaced the vector of a key already present.
C5_Witness ==
    /\ res.op = "add"
    /\ res.out.kind = "Ok"
    /\ res.replaced
    /\ num_classes = 2
    /\ data[res.key] = <<1, 0>>

(***************************************************************************)
(* What a source says, read off the way its lines were put together.       *)
(***************************************************************************)
NumToks == {<<"0">>, <<"1">>}

TokNumber(tok) == IF tok = <<"0">> THEN 0 ELSE 1

\* The well-formed lines for nc classes, each with its key and its scores.
WellFormedLines(nc) ==
    {<<join(key, toks), key, [i \in 1..nc |-> TokNumber(toks[i])]>> :
         key \in Keys, toks \in Vectors(NumToks, nc)}
    \cup (IF nc = 1 THEN {<<join(KeyA, << <<"1", " ">> >>), KeyA, <<1>>>>} ELSE {})

IsWellFormed(src, nc) ==
    \A i \in 1..Len(src) : \E w \in WellFormedLines(nc) : w[1] = src[i]

LineEntry(line, nc) == CHOOSE w \in WellFormedLines(nc) : w[1] = line

\* The number of score tokens of a line: its commas.
RECURSIVE ScoreCount(_)
ScoreCount(line) ==
    IF line = <<>> THEN 0
    ELSE (IF Head(line) = "," THEN 1 ELSE 0) + ScoreCount(Tail(line))

HasNonNumber(line) == \E p \in 1..Len(line) : line[p] = "x"

IsLoad == res.op = "from_csv_file"

\* C6 as stated: a well-formed source of M lines loads into a store with
\* count() == M in which every line's key maps to that line's scores, also
\* when two lines carry the same key.
C6_LoadCountIsLineCount ==
    (IsLoad /\ IsWellFormed(res.src, res.nc)) =>
        /\ res.out.kind = "Ok"
        /\ num_images(data) = Len(res.src)
        /\ \A i \in 1..Len(res.src) :
               LET w == LineEntry(res.src[i], res.nc)
               IN confidence_for_image(data, w[2]) = Ok(w[3])

\* C6 amended: a well-formed source loads into a store with one entry per
\* distinct key, so count() == M when the M keys are pairwise distinct, and
\* every key maps to the scores of the last line that carries it.
C6_LoadLastLineWins ==
    (IsLoad /\ IsWellFormed(res.src, res.nc)) =>
        /\ res.out.kind = "Ok"
        /\ num_classes = res.nc
        /\ list_images(data) = {LineEntry(res.src[i], res.nc)[2] : i \in 1..Len(res.src)}
        /\ num_images(data) = Cardinality({LineEntry(res.src[i], res.nc)[2] : i \in 1..Len(res.src)})
        /\ \A i \in 1..Len(res.src) :
               LET w == LineEntry(res.src[i], res.nc)
               IN (\A j \in (i + 1)..Len(res.src) : LineEntry(res.src[j], res.nc)[2] # w[2])
                      => confidence_for_image(data, w[2]) = Ok(w[3])

\* A load of two lines with the same key and different scores.
C6_Witness ==
    /\ IsLoad
    /\ res.out.kind = "Ok"
    /\ res.src = <<join(KeyA, << <<"0">> >>), join(KeyA, << <<"1">> >>)>>
    /\ num_images(data) = 1
    /\ data[KeyA] = <<1>>

\* C7 as stated: when some line has a number of score tokens other than
\* NumClasses, the load fails with a MalformedRecord error
\* (io::ErrorKind::InvalidData) citing the first such line, and returns no
\* store.
C7_LoadAllOrNothing ==
    (IsLoad /\ \E i \in 1..Len(res.src) : ScoreCount(res.src[i]) # res.nc) =>
        LET first == CHOOSE i \in 1..Len(res.src) :
                         /\ ScoreCount(res.src[i]) # res.nc
                         /\ \A j \in 1..(i - 1) : ScoreCount(res.src[j]) = res.nc
        IN /\ res.out.kind = "Err"
           /\ res.out.err = "InvalidData"
           /\ res.out.line = first - 1
           /\ is_empty(data)

\* C8 as stated: a line with a score token that is no number makes the load
\* fail with a MalformedRecord error returned to the caller, and a score
\* token with a space before it is trimmed and parsed.
C8_LoadBadTokenReturnsError ==
    /\ (IsLoad /\ \E i \in 1..Len(res.src) : HasNonNumber(res.src[i])) =>
           (res.out.kind = "Err" /\ res.out.err = "InvalidData")
    /\ (IsLoad /\ res.nc = 1 /\ res.src = <<join(KeyA, << <<" ", "1">> >>)>>) =>
           (res.out.kind = "Ok" /\ confidence_for_image(data, KeyA) = Ok(<<1>>))

\* C9: a successful add stores its vector under its key, leaves every other
\* key as it was and adds one to count() exactly when the key is new; a
\* failed add changes nothing.
C9_AddLastWriteWins ==
    [][(res'.op = "add") =>
           IF res'.out.kind = "Ok"
           THEN /\ confidence_for_image(data', res'.key) = Ok(res'.vec)
                /\ \A key \in Keys \ {res'.key} :
                       confidence_for_image(data', key) = confidence_for_image(data, key)
                /\ list_images(data') = list_images(data) \cup {res'.key}
                /\ num_images(data') =
                       IF image_is_present(data, res'.key)
                       THEN num_images(data) ELSE num_images(data) + 1
           ELSE data' = data]_vars

\* A key re-added with another vector while a second key is stored.
C9_Witness ==
    /\ res.op = "add"
    /\ res.out.kind = "Ok"
    /\ res.replaced
    /\ num_images(data) = 2
    /\ \E key \in Keys \ {res.key} : data[key] # data[res.key]

\* C10: every stored vector has length NumClasses, in a store built by adds
\* and in one returned by from_csv_file, and NumClasses never changes.
C10_VectorLengthFixed ==
    /\ [](\A key \in list_images(data) : Len(data[key]) = num_classes)
    /\ [][num_classes' = num_classes]_vars

\* A failed add on a store that holds two keys.
C10_Witness ==
    /\ res.op = "add"
    /\ res.out.kind = "Err"
    /\ num_images(data) = 2
    /\ \A key \in list_images(data) : Len(data[key]) = num_classes

\* C11: get and topK on a key the store does not hold fail with NotFound,
\* for every k (k > NumClasses too), and leave the store as it was.
C11_AbsentKeyNotFound ==
    [][(res'.op \in {"confidence_for_image", "topk_for_image"}
            /\ ~image_is_present(data, res'.key)) =>
           /\ res'.out.kind = "Err"
           /\ res'.out.err = "NotFound"
           /\ data' = data
           /\ num_classes' = num_classes]_vars

\* A topK with k > NumClasses on an absent key of a store that holds another.
C11_Witness ==
    /\ res.op = "topk_for_image"
    /\ ~image_is_present(data, res.key)
    /\ ~is_empty(data)
    /\ res.k > num_classes
    /\ res.out = image_not_present_error

\* C15: on a float sequence that holds a NaN, topK with any k <= its length
\* (k = 0 too) aborts and returns no index list; on a sequence without NaN
\* topK never aborts.
C15_TopKNaNAborts ==
    /\ (res.op = "top_k" /\ res.k <= Len(res.vec) /\ HasNaN(res.vec)) =>
           (res.out.kind = "Panic" /\ res.out.val = <<>>)
    /\ (res.op = "top_k" /\ ~HasNaN(res.vec)) => res.out.kind # "Panic"
    /\ (res.op = "topk_for_image" /\ image_is_present(data, res.key)
            /\ res.k <= num_classes) =>
           (res.out.kind = "Panic" <=> HasNaN(data[res.key]))

\* A topK with k = 0 on a sequence whose last element only is a NaN.
C15_Witness ==
    /\ res.op = "top_k"
    /\ res.k = 0
    /\ Len(res.vec) >= 2
    /\ is_nan(res.vec[Len(res.vec)])
    /\ \A i \in 1..(Len(res.vec) - 1) : ~is_nan(res.vec[i])
    /\ res.out = Panic

\* C12: encode(classIndex, numClasses) with classIndex < numClasses returns
\* a vector of length numClasses, true at classIndex and false elsewhere
\* (encode(2, 4) = [false, false, true, false]); with classIndex >=
\* numClasses it aborts and returns no vector.
C12_OneHotSingle ==
    (res.op = "convert") =>
        IF res.k < num_classes
        THEN /\ res.out.kind = "Ok"
             /\ Len(res.out.val) = num_classes
             /\ \A i \in 0..(num_classes - 1) : res.out.val[i + 1] = (i = res.k)
             /\ (res.k = 2 /\ num_classes = 4 => res.out.val = <<FALSE, FALSE, TRUE, FALSE>>)
        ELSE res.out.kind = "Panic" /\ res.out.val = <<>>

C12_Witness ==
    /\ res.op = "convert"
    /\ res.k = 2
    /\ num_classes = 4
    /\ res.out = Ok(<<FALSE, FALSE, TRUE, FALSE>>)

\* C13: encode(classIndices, numClasses) with every index < numClasses
\* returns a vector of length numClasses that is true exactly at the indices
\* that occur in the list, so duplicates and order change nothing and the
\* empty list gives all false (encode([3, 0], 5) = [true, false, false,
\* true, false]); with an index >= numClasses it aborts.
C13_OneHotList ==
    (res.op = "convert_vec") =>
        IF \A p \in 1..Len(res.vec) : res.vec[p] < num_classes
        THEN /\ res.out.kind = "Ok"
             /\ Len(res.out.val) = num_classes
             /\ \A i \in 0..(num_classes - 1) :
                    res.out.val[i + 1] = (\E p \in 1..Len(res.vec) : res.vec[p] = i)
             /\ (res.vec = <<3, 0>> /\ num_classes = 5 =>
                    res.out.val = <<TRUE, FALSE, FALSE, TRUE, FALSE>>)
             /\ (res.vec = <<>> => \A i \in 1..num_classes : ~res.out.val[i])
        ELSE res.out.kind = "Panic" /\ res.out.val = <<>>

\* A list that names an index twice, out of order.
C13_Witness ==
    /\ res.op = "convert_vec"
    /\ res.vec = <<3, 0, 3>>
    /\ num_classes = 5
    /\ res.out = Ok(<<TRUE, FALSE, FALSE, TRUE, FALSE>>)


\* C14: an add to the label store on a key it already holds fails with
\* DuplicateKey whatever the labels (more than one label on a single-label
\* store too), and leaves that key's labels and the count as they were; an
\* add that succeeds is on a key not held and raises the count by one, so
\* N successful adds leave a count of N.
C14_DuplicateKeyRejected ==
    [][res'.op = "dataset_add" =>
           /\ image_is_present(data, res'.key) =>
                  /\ res'.out.kind = "Err"
                  /\ res'.out.err = "DuplicateKey"
                  /\ data'[res'.key] = data[res'.key]
                  /\ num_images(data') = num_images(data)
           /\ res'.out.kind = "Ok" =>
                  /\ ~image_is_present(data, res'.key)
                  /\ num_images(data') = num_images(data) + 1
                  /\ data'[res'.key] = res'.vec
           /\ res'.out.kind = "Err" => data' = data]_vars

\* A single-label store that holds both keys refuses a two-label add on one
\* of them with DuplicateKey.
C14_Witness ==
    /\ res.op = "dataset_add"
    /\ ~is_multilabel
    /\ Len(res.vec) > 1
    /\ res.out = duplicate_key_error
    /\ num_images(data) = 2
    /\ Len(data[res.key]) = 1

====
